---------------------------- MODULE Spec2Model ----------------------------
(***************************************************************************)
(* Nayaya.ai backend: document lifecycle (upload, OCR, clause             *)
(* classification, analysis) and knowledge-base build over one document   *)
(* record of the Firestore "documents" collection.                         *)
(*                                                                         *)
(* Every handler is cut into steps at its document-store operations: the   *)
(* read of the record, each update, and the handler's except-branch        *)
(* update.  A request occupies one slot of reqs from its first read to its *)
(* response; the response is then kept in `last`.                          *)
(***************************************************************************)
EXTENDS Integers, Sequences, FiniteSets, TLC

VARIABLES doc, reqs, embeddings, last, upload_resp, clf_in, clf_out,
          chunks_in, chunks_out, search_resp, qa_resp, qa_history

\* The variables of the search and question-answering endpoints.
qa_vars == <<search_resp, qa_resp, qa_history>>

\* The input and the result of create_text_chunks taken alone.
chunk_vars == <<chunks_in, chunks_out>>

vars ==
    <<doc, reqs, embeddings, last, upload_resp, clf_in, clf_out,
      chunks_in, chunks_out, search_resp, qa_resp, qa_history>>

(***************************************************************************)
(* Bounds                                                                  *)
(***************************************************************************)
\* Longest "clauses" array a generation response carries.
MaxClauses == 2

\* Most embedding records a searched document has.
MaxChunks == 3

\* Largest limit a search is made with.
MaxLimit == 2

\* Most paragraphs a chunked document has.
MaxParagraphs == 12

\* Most records qa_history grows to.
MaxHistory == 2

\* Request slots: two requests may be in flight on the document at once.
Reqs == {"r1", "r2"}

\* Caller identities: no identity, the uploader, another user.
Callers == {"anon", "u1", "u2"}

\* The identifier upload creates, and one no upload ever created.
DocIds == {"d1", "ghost"}

(***************************************************************************)
(* models/document.py                                                      *)
(***************************************************************************)
ProcessingStatus ==
    { <<"UPLOADED", "uploaded">>, <<"PROCESSING", "processing">>,
      <<"OCR_COMPLETE", "ocr_complete">>, <<"CLASSIFIED", "classified">>,
      <<"ANALYZED", "analyzed">>, <<"COMPLETE", "complete">>,
      <<"FAILED", "failed">> }

RiskLevel == { <<"HIGH", "high">>, <<"MEDIUM", "medium">>, <<"LOW", "low">> }

ClauseType ==
    { <<"PARTIES_INVOLVED", "parties_involved">>, <<"DEFINITIONS", "definitions">>,
      <<"PURPOSE_SCOPE", "purpose_scope">>, <<"PAYMENT_TERMS", "payment_terms">>,
      <<"FEES_CHARGES", "fees_charges">>, <<"PENALTIES", "penalties">>,
      <<"INTEREST", "interest">>, <<"SECURITY_DEPOSIT", "security_deposit">>,
      <<"REFUND_POLICY", "refund_policy">>, <<"CONTRACT_DURATION", "contract_duration">>,
      <<"TERMINATION", "termination">>, <<"AUTO_RENEWAL", "auto_renewal">>,
      <<"EXIT_FEES", "exit_fees">>, <<"WARRANTIES", "warranties">>,
      <<"OBLIGATIONS", "obligations">>, <<"LIMITATION_LIABILITY", "limitation_liability">>,
      <<"INDEMNIFICATION", "indemnification">>, <<"GOVERNING_LAW", "governing_law">>,
      <<"DISPUTE_RESOLUTION", "dispute_resolution">>, <<"DATA_OWNERSHIP", "data_ownership">>,
      <<"DATA_SHARING", "data_sharing">>, <<"CONFIDENTIALITY", "confidentiality">>,
      <<"NON_COMPETE", "non_compete">>, <<"IP_RIGHTS", "ip_rights">>,
      <<"AMENDMENTS", "amendments">>, <<"SEVERABILITY", "severability">> }

\* [m.value for m in E]
EnumValues(E) == { m[2] : m \in E }

\* E.NAME: attribute lookup by member name.
EnumHasName(E, name) == \E m \in E : m[1] = name

\* E(value): lookup by value, ValueError when no member has it.
EnumHasValue(E, value) == value \in EnumValues(E)

(***************************************************************************)
(* Exceptions and responses                                                *)
(***************************************************************************)
NoExc == [raised |-> FALSE, http |-> FALSE, code |-> 0, msg |-> ""]

\* raise HTTPException(status_code=code, detail=msg)
HTTPException(code, msg) == [raised |-> TRUE, http |-> TRUE, code |-> code, msg |-> msg]

\* Any other exception; msg stands for str(e).
OtherException(msg) == [raised |-> TRUE, http |-> FALSE, code |-> 500, msg |-> msg]

(***************************************************************************)
(* Generation adapter outputs (response.text) and the parse-with-fallback  *)
(* layer of api/vertex_ai.py                                               *)
(***************************************************************************)
\* A key the JSON object does not carry.
Missing == "#missing"

\* clause_type values a generated clause may carry: a listed one, an unlisted
\* one, or none.
RawTypes == {"termination", "bogus", Missing}

\* risk_level values a generated clause may carry.
RawRisks == {"high", "bogus", Missing}

\* Elements of the "clauses" array: JSON objects, or a value that is no object.
RawClauses ==
    [obj : {TRUE}, clause_type : RawTypes, risk_level : RawRisks]
    \cup {[obj |-> FALSE, clause_type |-> Missing, risk_level |-> Missing]}

RawClauseLists == UNION { [1..n -> RawClauses] : n \in 0..MaxClauses }

\* response.text of the clause prompt: not JSON, JSON that is no object, or a
\* JSON object whose "clauses" is the given array.
GenOutputs ==
    {[kind |-> "notjson", clauses |-> <<>>], [kind |-> "nondict", clauses |-> <<>>]}
    \cup { [kind |-> "dict", clauses |-> cs] : cs \in RawClauseLists }

\* The generation responses the lifecycle specifications draw from: clauses
\* that are listed, of unlisted risk, of unlisted type, or no object.
StageRawClauses ==
    { [obj |-> TRUE, clause_type |-> "termination", risk_level |-> "high"],
      [obj |-> TRUE, clause_type |-> "termination", risk_level |-> "bogus"],
      [obj |-> TRUE, clause_type |-> "bogus", risk_level |-> "high"],
      [obj |-> FALSE, clause_type |-> Missing, risk_level |-> Missing] }

StageGenOutputs ==
    { g \in GenOutputs : \A k \in 1..Len(g.clauses) : g.clauses[k] \in StageRawClauses }

\* confidence_score of a parsed clause and of the fallback clause, in tenths.
ParsedConfidence == 8

FallbackConfidence == 3

\* d.get(key, default)
Get(value, default) == IF value = Missing THEN default ELSE value

\* One pass of the loop body: the clause built from clause_data, or the
\* exception the body raises.
BuildClause(i, clause_data) ==
    IF ~clause_data.obj
    THEN [exc |-> OtherException("AttributeError"), clause |-> <<>>]
    ELSE LET ct0 == Get(clause_data.clause_type, "other")
             clause_type == IF ct0 \notin EnumValues(ClauseType) THEN "other" ELSE ct0
             rl0 == Get(clause_data.risk_level, "medium")
             risk_level == IF rl0 \notin EnumValues(RiskLevel) THEN "medium" ELSE rl0
         IN  IF ~EnumHasValue(ClauseType, clause_type)
             THEN [exc |-> OtherException("ValueError"), clause |-> <<>>]
             ELSE [exc |-> NoExc,
                   clause |-> << [id |-> i + 1, clause_type |-> clause_type,
                                  risk_level |-> risk_level,
                                  confidence_score |-> ParsedConfidence] >>]

RECURSIVE ClauseLoop(_, _, _)
\* for i, clause_data in enumerate(result.get("clauses", [])), from index i on.
ClauseLoop(raw, i, clauses) ==
    IF i >= Len(raw)
    THEN [exc |-> NoExc, clauses |-> clauses]
    ELSE LET b == BuildClause(i, raw[i + 1])
         IN  IF b.exc.raised
             THEN [exc |-> b.exc, clauses |-> <<>>]
             ELSE ClauseLoop(raw, i + 1, clauses \o b.clause)

\* The except json.JSONDecodeError branch: one synthetic clause built with
\* ClauseType.OTHER and RiskLevel.MEDIUM.
FallbackClauses ==
    IF ~EnumHasName(ClauseType, "OTHER") \/ ~EnumHasName(RiskLevel, "MEDIUM")
    THEN [exc |-> OtherException("AttributeError"), clauses |-> <<>>]
    ELSE [exc |-> NoExc,
          clauses |-> << [id |-> 1,
                          clause_type |-> (CHOOSE m \in ClauseType : m[1] = "OTHER")[2],
                          risk_level |-> (CHOOSE m \in RiskLevel : m[1] = "MEDIUM")[2],
                          confidence_score |-> FallbackConfidence] >>]

\* segment_and_classify_clauses on the generation response gen: the clauses it
\* returns, or the exception that leaves it.
segment_and_classify_clauses(gen) ==
    CASE gen.kind = "notjson" -> FallbackClauses
      [] gen.kind = "nondict" -> [exc |-> OtherException("AttributeError"), clauses |-> <<>>]
      [] OTHER -> ClauseLoop(gen.clauses, 0, <<>>)

\* Answers of the document-type prompt, as response.text.
TypeAnswers == {" NDA\n", "a lease"}

\* response.text.strip().lower()
StripLower(text) == IF text = " NDA\n" THEN "nda" ELSE text

valid_types ==
    {"rental_agreement", "loan_contract", "employment_contract",
     "terms_of_service", "privacy_policy", "nda", "other"}

classify_document_type(text) ==
    LET document_type == StripLower(text)
    IN  IF document_type \notin valid_types THEN "other" ELSE document_type

\* response.text of the summary prompt.
SummaryOutputs == {"notjson", "nondict", "dict_full", "dict_empty"}

generate_summary_and_findings(gen) ==
    CASE gen = "notjson" ->
            [exc |-> NoExc, summary |-> "fallback summary", key_findings |-> "fallback findings"]
      [] gen = "nondict" ->
            [exc |-> OtherException("AttributeError"), summary |-> "", key_findings |-> ""]
      [] gen = "dict_full" ->
            [exc |-> NoExc, summary |-> "generated summary", key_findings |-> "generated findings"]
      [] OTHER ->
            [exc |-> NoExc, summary |-> "This document contains legal terms that require review.",
             key_findings |-> "Document requires legal review"]

risk_scores(level) == CASE level = "high" -> 3 [] level = "medium" -> 2 [] OTHER -> 1

RECURSIVE total_score(_)
total_score(clauses) ==
    IF clauses = <<>> THEN 0
    ELSE risk_scores(Head(clauses).risk_level) + total_score(Tail(clauses))

\* The thresholds taken as strict: an average of exactly 2.5 or 1.5 falls to
\* the level below.
calculate_overall_risk_strict(clauses) ==
    IF clauses = <<>> THEN "medium"
    ELSE IF 2 * total_score(clauses) > 5 * Len(clauses) THEN "high"
    ELSE IF 2 * total_score(clauses) > 3 * Len(clauses) THEN "medium"
    ELSE "low"

\* average_score = total_score / len(clauses), compared with 2.5 and 1.5.
calculate_overall_risk(clauses) ==
    IF clauses = <<>> THEN "medium"
    ELSE IF 2 * total_score(clauses) >= 5 * Len(clauses) THEN "high"
    ELSE IF 2 * total_score(clauses) >= 3 * Len(clauses) THEN "medium"
    ELSE "low"

(***************************************************************************)
(* The document record (collection "documents") and the requests           *)
(***************************************************************************)
\* doc_data.get("extracted_data", {}) of a record without the field.
NoData == [raw_text |-> "", paragraphs |-> <<>>]

\* No record under the identifier (doc.exists is False).
NoDoc ==
    [exists |-> FALSE, user_id |-> "none", processing_status |-> Missing,
     gcs_path |-> Missing, extracted_data |-> NoData, document_type |-> Missing,
     clauses |-> <<>>, overall_risk |-> Missing, summary |-> Missing,
     key_findings |-> Missing, error_message |-> Missing,
     knowledge_base_created |-> FALSE, embeddings_count |-> 0]

\* What the OCR stage stores as extracted_data: document.text, the global
\* paragraph list (a paragraph is given by the length of its text) and the
\* numbers of pages, entities and tables.
OcrOutputs ==
    { [raw_text |-> "", paragraphs |-> <<>>, pages |-> 0, entities |-> 0, tables |-> 0],
      [raw_text |-> "text", paragraphs |-> <<>>, pages |-> 1, entities |-> 0, tables |-> 0],
      [raw_text |-> "text", paragraphs |-> << [len |-> 101], [len |-> 100] >>,
       pages |-> 1, entities |-> 1, tables |-> 1] }

StageKinds == {"ocr", "classify", "analyze"}

\* The part of doc_data (and of the checks made on it) that a handler still
\* reads after its first store operation.
NoDocData == [processing_status |-> Missing, raw_text |-> "", paragraphs |-> <<>>, clauses |-> <<>>]

\* A handler that looks for the text at the top level of the record, where
\* no stage stores it.
DocDataTopLevel(kind, d) ==
    [processing_status |-> IF kind \in StageKinds THEN d.processing_status ELSE Missing,
     raw_text |-> "",
     paragraphs |-> <<>>,
     clauses |-> IF kind \in {"analyze", "kb"} THEN d.clauses ELSE <<>>]

DocData(kind, d) ==
    [processing_status |-> IF kind \in StageKinds THEN d.processing_status ELSE Missing,
     raw_text |-> IF kind \in {"classify", "kb"} THEN d.extracted_data.raw_text ELSE "",
     paragraphs |-> IF kind = "kb" THEN d.extracted_data.paragraphs ELSE <<>>,
     clauses |-> IF kind \in {"analyze", "kb"} THEN d.clauses ELSE <<>>]

Idle ==
    [pc |-> "idle", kind |-> "none", document_id |-> "none", doc_data |-> NoDocData,
     exc |-> NoExc, gk |-> "none", embeddings_data |-> <<>>, skipped |-> {}]

NoResp ==
    [kind |-> "none", document_id |-> "none", code |-> 0, detail |-> "", n |-> 0, gk |-> "none"]

\* firestore_client.collection(COLLECTION_NAME).document(document_id).get()
GetDoc(document_id) == IF document_id = "d1" THEN doc ELSE NoDoc

\* A check that also turns away a caller without identity from a record that
\* has an owner.
AccessDeniedAnonymous(current_user, d) ==
    d.user_id # "none" /\ d.user_id # current_user

\* "Check user access": the caller has an identity, the record has an owner,
\* and they differ.
AccessDenied(current_user, d) ==
    current_user # "anon" /\ d.user_id # "none" /\ d.user_id # current_user

\* A stage that starts whatever the status is.
PrereqMetAlways(kind, status) == TRUE

\* The status check a stage makes before it starts (none for process-ocr).
PrereqMet(kind, status) ==
    CASE kind = "classify" -> status = "ocr_complete"
      [] kind = "analyze" -> status = "classified"
      [] OTHER -> TRUE

PrereqDetail(kind) ==
    IF kind = "classify" THEN "Document must complete OCR processing first"
    ELSE "Document must complete clause classification first"

\* The HTTPException a stage handler raises between its read of the record
\* and its first update, or NoExc.
LoadChecks(kind, current_user, d) ==
    IF ~d.exists THEN HTTPException(404, "Document not found")
    ELSE IF AccessDenied(current_user, d) THEN HTTPException(403, "Access denied")
    ELSE IF ~PrereqMet(kind, d.processing_status) THEN HTTPException(400, PrereqDetail(kind))
    ELSE NoExc

\* segment_and_classify_clauses not yet called on clf_in.
NoClfOut == [done |-> FALSE, exc |-> NoExc, clauses |-> <<>>]

\* create_text_chunks not called.
NoChunksIn == [raw_text |-> "", paragraphs |-> <<>>, clauses |-> <<>>]

NoChunksOut == [done |-> FALSE, chunks |-> <<>>]

\* No search made yet.
NoSearch ==
    [code |-> 0, detail |-> "", document_id |-> "none", limit |-> 0, results |-> <<>>,
     total_searched |-> 0, embedded |-> FALSE, scanned |-> FALSE]

\* No question answered yet.
NoAnswer ==
    [code |-> 0, detail |-> "", document_id |-> "none", question |-> "", gk |-> "none",
     answer |-> [kind |-> "str", parts |-> <<>>], confidence |-> [kind |-> "num", v |-> 0],
     sources |-> <<>>, citations |-> <<>>, document_context |-> <<>>,
     legal_context |-> <<>>, legal_source |-> "none", kb_code |-> 0,
     response_time_ms |-> 0]

Init ==
    /\ doc = NoDoc
    /\ reqs = [r \in Reqs |-> Idle]
    /\ embeddings = <<>>
    /\ last = NoResp
    /\ upload_resp = 0
    /\ clf_in = [kind |-> "none", clauses |-> <<>>]
    /\ clf_out = NoClfOut
    /\ chunks_in = NoChunksIn
    /\ chunks_out = NoChunksOut
    /\ search_resp = NoSearch
    /\ qa_resp = NoAnswer
    /\ qa_history = <<>>

\* upload_document: POST /upload.  One document is uploaded in a run.
Upload(current_user, type_ok, size_ok, store_ok) ==
    /\ ~doc.exists
    /\ upload_resp' = IF ~type_ok \/ ~size_ok THEN 400 ELSE IF ~store_ok THEN 500 ELSE 200
    /\ doc' = IF type_ok /\ size_ok /\ store_ok
              THEN [NoDoc EXCEPT !.exists = TRUE,
                                 !.user_id = IF current_user = "anon" THEN "none" ELSE current_user,
                                 !.processing_status = "uploaded",
                                 !.gcs_path = "uploads/d1"]
              ELSE doc
    /\ UNCHANGED <<reqs, embeddings, last, clf_in, clf_out, chunk_vars, qa_vars>>

\* The response leaves slot r.
Respond(r, code, n) ==
    /\ last' = [kind |-> reqs[r].kind, document_id |-> reqs[r].document_id,
                code |-> code, detail |-> reqs[r].exc.msg, n |-> n, gk |-> reqs[r].gk]
    /\ reqs' = [reqs EXCEPT ![r] = Idle]

\* A stage handler from its entry to the end of its checks on doc_data.
StageLoad(r, kind, document_id, current_user) ==
    /\ reqs[r].pc = "idle"
    /\ kind \in StageKinds
    /\ document_id = "d1" => doc.exists
    /\ LET d == GetDoc(document_id)
           e == LoadChecks(kind, current_user, d)
       IN  reqs' = [reqs EXCEPT ![r] =
                      [Idle EXCEPT !.pc = IF e.raised THEN "fail" ELSE "mark",
                                   !.kind = kind, !.document_id = document_id,
                                   !.doc_data = IF d.exists THEN DocData(kind, d) ELSE NoDocData,
                                   !.exc = e]]
    /\ last' = NoResp
    /\ UNCHANGED <<doc, embeddings, upload_resp, clf_in, clf_out, chunk_vars, qa_vars>>

\* doc_ref.update({"processing_status": PROCESSING})
StageMark(r) ==
    /\ reqs[r].pc = "mark"
    /\ doc' = [doc EXCEPT !.processing_status = "processing"]
    /\ reqs' = [reqs EXCEPT ![r].pc = "run"]
    /\ UNCHANGED <<embeddings, last, upload_resp, clf_in, clf_out, chunk_vars, qa_vars>>

\* An exception leaves the try block of slot r.
Raise(r, e, gk) ==
    /\ reqs' = [reqs EXCEPT ![r].pc = "fail", ![r].exc = e, ![r].gk = gk]
    /\ UNCHANGED <<doc, last>>

\* An update that adds the new lists to the stored ones.
ExtractedDataMerged(stored, extracted_data) ==
    IF "pages" \notin DOMAIN stored THEN extracted_data
    ELSE [raw_text |-> extracted_data.raw_text,
          paragraphs |-> stored.paragraphs \o extracted_data.paragraphs,
          pages |-> stored.pages + extracted_data.pages,
          entities |-> stored.entities + extracted_data.entities,
          tables |-> stored.tables + extracted_data.tables]

\* doc_ref.update({"extracted_data": extracted_data, ...}): the field takes the
\* dict built in this run, whatever it held.
ExtractedDataUpdate(stored, extracted_data) == extracted_data

\* process_document_ocr from the blob download to its return.
OcrRun(r, blob_ok, adapter_ok, out) ==
    /\ reqs[r].pc = "run" /\ reqs[r].kind = "ocr"
    /\ IF doc.gcs_path = Missing
       THEN Raise(r, HTTPException(400, "Document path not found"), "none")
       ELSE IF ~blob_ok
       THEN Raise(r, HTTPException(404, "Document file not found in storage"), "none")
       ELSE IF ~adapter_ok
       THEN Raise(r, OtherException("adapter error"), "none")
       ELSE /\ doc' = [doc EXCEPT !.processing_status = "ocr_complete",
                                  !.extracted_data =
                                      ExtractedDataUpdate(doc.extracted_data, out)]
            /\ Respond(r, 200, Len(out.paragraphs))
    /\ UNCHANGED <<embeddings, upload_resp, clf_in, clf_out, chunk_vars, qa_vars>>

\* classify_document_clauses with a version check on its final update: the
\* write is refused when the record is no longer the one this request marked.
ClassifyRunVersioned(r, adapter_ok, answer, gen) ==
    /\ reqs[r].pc = "run" /\ reqs[r].kind = "classify"
    /\ IF reqs[r].doc_data.raw_text = ""
       THEN Raise(r, HTTPException(400, "No text found in document"), "none")
       ELSE IF ~adapter_ok
       THEN Raise(r, OtherException("adapter error"), "none")
       ELSE IF doc.processing_status # "processing"
       THEN Raise(r, OtherException("conflict"), "none")
       ELSE /\ doc' = [doc EXCEPT !.processing_status = "classified",
                                  !.document_type = classify_document_type(answer),
                                  !.clauses = segment_and_classify_clauses(gen).clauses]
            /\ last' = [kind |-> "classify", document_id |-> reqs[r].document_id,
                        code |-> 200, detail |-> "", n |-> Len(doc'.clauses), gk |-> gen.kind]
            /\ reqs' = [reqs EXCEPT ![r] = Idle]
    /\ UNCHANGED <<embeddings, upload_resp, clf_in, clf_out, chunk_vars, qa_vars>>

\* classify_document_clauses from "Get extracted text" to its return.
ClassifyRun(r, adapter_ok, answer, gen) ==
    /\ reqs[r].pc = "run" /\ reqs[r].kind = "classify"
    /\ IF reqs[r].doc_data.raw_text = ""
       THEN Raise(r, HTTPException(400, "No text found in document"), "none")
       ELSE IF ~adapter_ok
       THEN Raise(r, OtherException("adapter error"), "none")
       ELSE LET res == segment_and_classify_clauses(gen)
            IN  IF res.exc.raised
                THEN Raise(r, res.exc, gen.kind)
                ELSE /\ doc' = [doc EXCEPT !.processing_status = "classified",
                                           !.document_type = classify_document_type(answer),
                                           !.clauses = res.clauses]
                     /\ last' = [kind |-> "classify", document_id |-> reqs[r].document_id,
                                 code |-> 200, detail |-> "", n |-> Len(res.clauses),
                                 gk |-> gen.kind]
                     /\ reqs' = [reqs EXCEPT ![r] = Idle]
    /\ UNCHANGED <<embeddings, upload_resp, clf_in, clf_out, chunk_vars, qa_vars>>

\* An analysis update that closes the lifecycle with ProcessingStatus.COMPLETE.
AnalysisUpdateComplete(d, overall_risk, summary_data) ==
    [d EXCEPT !.processing_status = "complete",
              !.overall_risk = overall_risk,
              !.summary = summary_data.summary,
              !.key_findings = summary_data.key_findings]

\* doc_ref.update(analysis_result)
AnalysisUpdate(d, overall_risk, summary_data) ==
    [d EXCEPT !.processing_status = "analyzed",
              !.overall_risk = overall_risk,
              !.summary = summary_data.summary,
              !.key_findings = summary_data.key_findings]

\* analyze_document from "Get clauses" to its return.
AnalyzeRun(r, adapter_ok, gen) ==
    /\ reqs[r].pc = "run" /\ reqs[r].kind = "analyze"
    /\ IF reqs[r].doc_data.clauses = <<>>
       THEN Raise(r, HTTPException(400, "No clauses found in document"), "none")
       ELSE IF ~adapter_ok
       THEN Raise(r, OtherException("adapter error"), "none")
       ELSE LET summary_data == generate_summary_and_findings(gen)
                overall_risk == calculate_overall_risk(reqs[r].doc_data.clauses)
            IN  IF summary_data.exc.raised
                THEN Raise(r, summary_data.exc, gen)
                ELSE /\ doc' = AnalysisUpdate(doc, overall_risk, summary_data)
                     /\ Respond(r, 200, Len(reqs[r].doc_data.clauses))
    /\ UNCHANGED <<embeddings, upload_resp, clf_in, clf_out, chunk_vars, qa_vars>>

FailedDetail(kind) ==
    CASE kind = "ocr" -> "OCR processing failed"
      [] kind = "classify" -> "Clause classification failed"
      [] OTHER -> "Document analysis failed"

\* Except branches that re-raise without writing, as those of
\* create_knowledge_base do.
FailedUpdateNone(d, kind, e) == d

\* What the except branches of a stage handler write to the record.
FailedUpdate(d, kind, e) ==
    [d EXCEPT !.processing_status = "failed",
              !.error_message = IF e.http THEN FailedDetail(kind) ELSE e.msg]

\* The except branches of a stage handler: update the record, then raise.
\* DocumentReference.update raises NotFound when there is no record, and that
\* exception leaves the handler in place of the one being handled.
StageFail(r) ==
    /\ reqs[r].pc = "fail" /\ reqs[r].kind \in StageKinds
    /\ IF GetDoc(reqs[r].document_id).exists
       THEN /\ doc' = FailedUpdate(doc, reqs[r].kind, reqs[r].exc)
            /\ Respond(r, reqs[r].exc.code, 0)
       ELSE /\ doc' = doc
            /\ last' = [kind |-> reqs[r].kind, document_id |-> reqs[r].document_id,
                        code |-> 500, detail |-> "NotFound", n |-> 0, gk |-> reqs[r].gk]
            /\ reqs' = [reqs EXCEPT ![r] = Idle]
    /\ UNCHANGED <<embeddings, upload_resp, clf_in, clf_out, chunk_vars, qa_vars>>

\* The GET endpoints that name a document: get_upload_status, get_ocr_result,
\* get_analysis_result, get_qa_history, get_suggested_questions.
ReadKinds ==
    {"get_upload_status", "get_ocr_result", "get_analysis_result", "get_qa_history",
     "get_suggested_questions"}

\* The HTTPException a GET endpoint raises, or NoExc.
ReadChecks(kind, current_user, d) ==
    IF ~d.exists THEN HTTPException(404, "Document not found")
    ELSE IF AccessDenied(current_user, d) THEN HTTPException(403, "Access denied")
    ELSE IF kind = "get_ocr_result" /\ "pages" \notin DOMAIN d.extracted_data
    THEN HTTPException(404, "OCR data not found. Process the document first.")
    ELSE IF kind = "get_analysis_result" /\ d.processing_status \notin {"analyzed", "complete"}
    THEN HTTPException(404, "Analysis not complete. Process the document first.")
    ELSE NoExc

\* A GET endpoint: it reads the record and writes nothing.
GetEndpoint(kind, document_id, current_user) ==
    /\ kind \in ReadKinds
    /\ document_id = "d1" => doc.exists
    /\ LET e == ReadChecks(kind, current_user, GetDoc(document_id))
       IN  last' = [kind |-> kind, document_id |-> document_id,
                    code |-> IF e.raised THEN e.code ELSE 200, detail |-> e.msg,
                    n |-> 0, gk |-> "none"]
    /\ UNCHANGED <<doc, reqs, embeddings, upload_resp, clf_in, clf_out, chunk_vars, qa_vars>>

(***************************************************************************)
(* api/rag.py: knowledge-base build and search                             *)
(***************************************************************************)
\* "Limit to first 10 paragraphs" and "Only include substantial paragraphs".
ParagraphLimit == 10

MinParagraphLen == 100

RECURSIVE ParagraphChunksUnlimited(_, _)
\* A paragraph loop over all the paragraphs.
ParagraphChunksUnlimited(paragraphs, i) ==
    IF i >= Len(paragraphs) THEN <<>>
    ELSE (IF paragraphs[i + 1].len > MinParagraphLen
          THEN << [type |-> "paragraph", index |-> i] >> ELSE <<>>)
         \o ParagraphChunksUnlimited(paragraphs, i + 1)

RECURSIVE ParagraphChunks(_, _)
\* The paragraph loop of create_text_chunks from index i on.
ParagraphChunks(paragraphs, i) ==
    IF i >= Len(paragraphs) \/ i >= ParagraphLimit THEN <<>>
    ELSE (IF paragraphs[i + 1].len > MinParagraphLen
          THEN << [type |-> "paragraph", index |-> i] >> ELSE <<>>)
         \o ParagraphChunks(paragraphs, i + 1)

create_text_chunks(raw_text, paragraphs, clauses) ==
    << [type |-> "document", index |-> 0] >>
    \o [k \in 1..Len(clauses) |-> [type |-> "clause", index |-> clauses[k].id]]
    \o ParagraphChunks(paragraphs, 0)

RECURSIVE EmbeddedAbort(_, _, _)
\* An embedding loop without the inner try: the first get_embeddings call
\* that raises ends the loop.
EmbeddedAbort(chunks, i, ok) ==
    IF i >= Len(chunks) \/ i \notin ok THEN <<>>
    ELSE << [chunk_id |-> i, document_id |-> "d1", chunk_type |-> chunks[i + 1].type,
             index |-> chunks[i + 1].index, embedding |-> TRUE,
             knowledge_base_created |-> FALSE, embeddings_count |-> 0] >>
         \o EmbeddedAbort(chunks, i + 1, ok)

RECURSIVE Embedded(_, _, _)
\* The embedding loop: embeddings_data, given the set ok of chunk ordinals
\* whose get_embeddings call succeeds.
Embedded(chunks, i, ok) ==
    IF i >= Len(chunks) THEN <<>>
    ELSE (IF i \in ok
          THEN << [chunk_id |-> i, document_id |-> "d1", chunk_type |-> chunks[i + 1].type,
                   index |-> chunks[i + 1].index, embedding |-> TRUE,
                   knowledge_base_created |-> FALSE, embeddings_count |-> 0] >>
          ELSE <<>>)
         \o Embedded(chunks, i + 1, ok)

\* create_knowledge_base from its entry through the embedding loop; failing is
\* the set of chunk ordinals whose get_embeddings call raises, and skipped the
\* ordinals the loop's except branch prints.  The handler's except branches
\* re-raise without writing.
KbLoad(r, document_id, current_user, failing) ==
    /\ reqs[r].pc = "idle"
    /\ document_id = "d1" => doc.exists
    /\ LET d == GetDoc(document_id)
           e == LoadChecks("kb", current_user, d)
           chunks == create_text_chunks(d.extracted_data.raw_text,
                                        d.extracted_data.paragraphs, d.clauses)
           ok == (0..(Len(chunks) - 1)) \ failing
       IN  IF e.raised \/ d.extracted_data.raw_text = ""
           THEN /\ last' = [kind |-> "kb", document_id |-> document_id,
                            code |-> IF e.raised THEN e.code ELSE 400,
                            detail |-> IF e.raised THEN e.msg ELSE "No text found in document",
                            n |-> 0, gk |-> "none"]
                /\ reqs' = reqs
           ELSE /\ reqs' = [reqs EXCEPT ![r] =
                              [Idle EXCEPT !.pc = "commit", !.kind = "kb",
                                           !.document_id = document_id,
                                           !.embeddings_data = Embedded(chunks, 0, ok),
                                           !.skipped = (0..(Len(chunks) - 1)) \cap failing]]
                /\ last' = NoResp
    /\ UNCHANGED <<doc, embeddings, upload_resp, clf_in, clf_out, chunk_vars, qa_vars>>

\* batch.set(...) for every entry of embeddings_data; batch.commit().
KbCommit(r) ==
    /\ reqs[r].pc = "commit"
    /\ LET data == reqs[r].embeddings_data
           ids == { data[k].chunk_id : k \in 1..Len(data) }
       IN  embeddings' =
             [i \in DOMAIN embeddings \cup ids |->
                IF i \in ids THEN (CHOOSE x \in { data[k] : k \in 1..Len(data) } : x.chunk_id = i)
                ELSE embeddings[i]]
    /\ reqs' = [reqs EXCEPT ![r].pc = "flag"]
    /\ UNCHANGED <<doc, last, upload_resp, clf_in, clf_out, chunk_vars, qa_vars>>

\* The record doc_ref names at "Update main document": the store loop rebinds
\* doc_ref to each embedding record in turn.
FlagTarget(data) == IF data = <<>> THEN "documents" ELSE "embeddings"

\* doc_ref.update({"knowledge_base_created": True, "embeddings_count": ...})
\* and the success response.
KbFlag(r) ==
    /\ reqs[r].pc = "flag"
    /\ LET data == reqs[r].embeddings_data
       IN  /\ IF FlagTarget(data) = "documents"
              THEN /\ doc' = [doc EXCEPT !.knowledge_base_created = TRUE,
                                         !.embeddings_count = Len(data)]
                   /\ embeddings' = embeddings
              ELSE /\ embeddings' = [embeddings EXCEPT
                                       ![data[Len(data)].chunk_id].knowledge_base_created = TRUE,
                                       ![data[Len(data)].chunk_id].embeddings_count = Len(data)]
                   /\ doc' = doc
           /\ Respond(r, 200, Len(data))
    /\ UNCHANGED <<upload_resp, clf_in, clf_out, chunk_vars, qa_vars>>

Min(a, b) == IF a <= b THEN a ELSE b

\* Cosine similarities (in tenths) a query has with stored vectors.
Sims == {-5, 9}

SetMin(S) == CHOOSE x \in S : \A y \in S : x <= y

RECURSIVE StreamResults(_, _, _)
\* The loop over embeddings_query.stream(), records taken in key order: one
\* result for every record of ids that holds a vector, with the similarity
\* sim gives it.
StreamResults(emb, ids, sim) ==
    IF ids = {} THEN <<>>
    ELSE LET i == SetMin(ids)
         IN  (IF emb[i].embedding
              THEN << [chunk_id |-> i, chunk_type |-> emb[i].chunk_type,
                       index |-> emb[i].index, similarity |-> sim[i]] >>
              ELSE <<>>)
             \o StreamResults(emb, ids \ {i}, sim)

\* One insertion of the stable descending sort.
InsertDesc(sorted, x) ==
    LET k == Cardinality({ j \in 1..Len(sorted) : sorted[j].similarity >= x.similarity })
    IN  SubSeq(sorted, 1, k) \o <<x>> \o SubSeq(sorted, k + 1, Len(sorted))

\* A search that returns the results in stream order.
SortBySimilarityNone(results) == results

RECURSIVE SortBySimilarity(_)
\* results.sort(key=lambda x: x["similarity"], reverse=True)
SortBySimilarity(results) ==
    IF Len(results) <= 1 THEN results
    ELSE InsertDesc(SortBySimilarity(SubSeq(results, 1, Len(results) - 1)),
                    results[Len(results)])

\* seq[:limit]
SliceTo(seq, limit) ==
    IF limit >= 0 THEN SubSeq(seq, 1, Min(limit, Len(seq)))
    ELSE SubSeq(seq, 1, Len(seq) + limit)

\* A search that embeds the query before it looks at the flag.
FlagCheckLate(d, adapter_ok) ==
    IF ~adapter_ok THEN "adapter" ELSE IF ~d.knowledge_base_created THEN "late" ELSE "scan"

\* How far search_knowledge_base gets after its access check: stopped by the
\* flag check, stopped by a failure of the query embedding, or on to the scan.
FlagCheck(d, adapter_ok) ==
    IF ~d.knowledge_base_created THEN "flag" ELSE IF ~adapter_ok THEN "adapter" ELSE "scan"

\* search_knowledge_base on the record d and the embeddings collection emb:
\* the exception it raises or what it returns, whether it called the embedding
\* adapter and whether it read the embeddings collection.
search_knowledge_base(d, emb, document_id, limit, current_user, adapter_ok, sim) ==
    LET e == LoadChecks("search", current_user, d)
        stop == FlagCheck(d, adapter_ok)
        ids == { i \in DOMAIN emb : emb[i].document_id = document_id }
        results == SortBySimilarity(StreamResults(emb, ids, sim))
        none == [exc |-> NoExc, results |-> <<>>, total_searched |-> 0,
                 embedded |-> FALSE, scanned |-> FALSE]
    IN  IF e.raised THEN [none EXCEPT !.exc = e]
        ELSE IF stop \in {"flag", "late"}
        THEN [none EXCEPT
                !.exc = HTTPException(400, "Knowledge base not created for this document"),
                !.embedded = (stop = "late")]
        ELSE IF stop = "adapter"
        THEN [none EXCEPT !.exc = HTTPException(500, "Knowledge base search failed"),
                          !.embedded = TRUE]
        ELSE [exc |-> NoExc, results |-> SliceTo(results, limit),
              total_searched |-> Len(results), embedded |-> TRUE, scanned |-> TRUE]

\* POST /search-knowledge
SearchKb(document_id, limit, current_user, adapter_ok, sim) ==
    /\ document_id = "d1" => doc.exists
    /\ LET res == search_knowledge_base(GetDoc(document_id), embeddings, document_id,
                                        limit, current_user, adapter_ok, sim)
       IN  search_resp' =
             [code |-> IF res.exc.raised THEN res.exc.code ELSE 200,
              detail |-> res.exc.msg, document_id |-> document_id, limit |-> limit,
              results |-> res.results, total_searched |-> res.total_searched,
              embedded |-> res.embedded, scanned |-> res.scanned]
    /\ UNCHANGED <<doc, reqs, embeddings, last, upload_resp, clf_in, clf_out,
                   chunk_vars, qa_resp, qa_history>>

(***************************************************************************)
(* api/rag.py: legal corpus search; api/qa.py: question answering          *)
(***************************************************************************)
\* Questions: one that names a keyword of the mock table, one that names none.
Queries == {"termination fee?", "hello"}

\* The mock table for a query: title and relevance_score (in hundredths).
mock_knowledge(query) ==
    << [title |-> "Tenant Rights - Security Deposits", relevance_score |-> 30],
       [title |-> "Contract Termination Rights",
        relevance_score |-> IF query = "termination fee?" THEN 90 ELSE 40],
       [title |-> "Limitation of Liability Clauses", relevance_score |-> 20],
       [title |-> "Data Privacy Requirements", relevance_score |-> 30],
       [title |-> "Employment Contract Standards", relevance_score |-> 25] >>

\* One insertion of the stable descending sort on relevance_score.
InsertByRelevance(sorted, x) ==
    LET k == Cardinality({ j \in 1..Len(sorted) :
                             sorted[j].relevance_score >= x.relevance_score })
    IN  SubSeq(sorted, 1, k) \o <<x>> \o SubSeq(sorted, k + 1, Len(sorted))

RECURSIVE SortByRelevance(_)
\* mock_knowledge.sort(key=lambda x: x["relevance_score"], reverse=True)
SortByRelevance(results) ==
    IF Len(results) <= 1 THEN results
    ELSE InsertByRelevance(SortByRelevance(SubSeq(results, 1, Len(results) - 1)),
                           results[Len(results)])

\* return mock_knowledge[:3]
MockLimit == 3

get_mock_legal_knowledge(query) == SliceTo(SortByRelevance(mock_knowledge(query)), MockLimit)

\* The first page of the external search service for page_size = limit: hits
\* results, at most limit of them.
ExternalResults(hits, limit) ==
    [k \in 1..Min(hits, limit) |-> [title |-> "Statute", relevance_score |-> 0]]

\* search_legal_corpus: the mock table when no search engine is configured or
\* when anything raises, the external service's results otherwise.  No
\* exception leaves it.
search_legal_corpus(query, limit, engine, service_ok, hits) ==
    IF ~engine THEN [exc |-> NoExc, results |-> get_mock_legal_knowledge(query),
                     source |-> "mock_legal_corpus"]
    ELSE IF ~service_ok
    THEN [exc |-> NoExc, results |-> get_mock_legal_knowledge(query),
          source |-> "mock_legal_corpus"]
    ELSE [exc |-> NoExc, results |-> ExternalResults(hits, limit),
          source |-> "vertex_ai_search"]

\* The text every path of generate_answer ends its answer with, and the
\* further sentence the path of a parsed response adds to it.
DisclaimerHead ==
    "This analysis is for educational purposes only and does not constitute legal advice."

DisclaimerTail == "Please consult with a qualified attorney for legal decisions."

\* response.text of the answer prompt: the call raises, the text is not JSON,
\* is JSON but no object, or is an object whose "answer" is a string, absent,
\* null or an array, and whose "confidence" is a number (in tenths), NaN,
\* a word, or absent.
AnswerValues == {"text", Missing, "null", "list"}

\* A JSON number, as the float it parses to (in tenths).
Num(v) == [kind |-> "num", v |-> v]

NaN == [kind |-> "nan", v |-> 0]

ConfidenceValues ==
    {Num(-5), Num(15), NaN, [kind |-> "word", v |-> 0], [kind |-> "absent", v |-> 0]}

AnswerOutputs ==
    {[kind |-> k, answer |-> Missing, confidence |-> [kind |-> "absent", v |-> 0]] :
        k \in {"raise", "notjson", "nondict"}}
    \cup [kind : {"dict"}, answer : AnswerValues, confidence : ConfidenceValues]

DefaultConfidence == 5

JsonFallbackConfidence == 3

ErrorFallbackConfidence == 2

\* min(max(confidence, 0.0), 1.0), in tenths; both comparisons are false for
\* NaN, which min and max therefore return.
Clamp(confidence) ==
    IF confidence.kind = "nan" THEN NaN
    ELSE IF confidence.v < 0 THEN Num(0)
    ELSE IF confidence.v > 10 THEN Num(10)
    ELSE confidence

\* The sources list built before the generation call.
Sources(document_context, legal_context) ==
    [k \in 1..Len(document_context) |->
        IF document_context[k].chunk_type = "clause"
        THEN [kind |-> "Clause", chunk |-> document_context[k].chunk_id, title |-> ""]
        ELSE [kind |-> "Document section", chunk |-> document_context[k].chunk_id,
              title |-> ""]]
    \o [k \in 1..Len(legal_context) |->
          [kind |-> "Legal", chunk |-> -1, title |-> legal_context[k].title]]

create_citations(legal_context) ==
    [k \in 1..Len(legal_context) |-> [reference |-> legal_context[k].title]]

\* except json.JSONDecodeError
JsonFallback(sources) ==
    [answer |-> [kind |-> "str",
                 parts |-> <<"I found some relevant information in your document", DisclaimerHead>>],
     confidence |-> Num(JsonFallbackConfidence), sources |-> SliceTo(sources, 3), citations |-> <<>>]

\* except Exception
ErrorFallback ==
    [answer |-> [kind |-> "str",
                 parts |-> <<"I encountered an issue while analyzing your question",
                             DisclaimerHead>>],
     confidence |-> Num(ErrorFallbackConfidence), sources |-> <<>>, citations |-> <<>>]

\* The path generate_answer takes on the response gen.
AnswerPath(gen, document_context, legal_context) ==
    CASE gen.kind = "notjson" -> "json"
      [] gen.kind \in {"raise", "nondict"} -> "error"
      [] gen.confidence.kind = "word" -> "error"
      [] gen.answer = "null" -> "error"
      [] OTHER -> "parsed"

\* generate_answer: the answer, its confidence, sources and citations.
generate_answer(gen, document_context, legal_context) ==
    LET sources == Sources(document_context, legal_context)
        path == AnswerPath(gen, document_context, legal_context)
        body == Get(gen.answer, "I couldn't find relevant information")
    IN  CASE path = "json" -> JsonFallback(sources)
          [] path = "error" -> ErrorFallback
          [] OTHER ->
               [answer |-> [kind |-> IF gen.answer = "list" THEN "list" ELSE "str",
                            parts |-> <<body, DisclaimerHead, DisclaimerTail>>],
                confidence |-> Clamp(IF gen.confidence.kind = "absent"
                                     THEN Num(DefaultConfidence) ELSE gen.confidence),
                sources |-> SliceTo(sources, 5),
                citations |-> create_citations(legal_context)]

\* The query's similarity to the stored vectors during a question: least for
\* the document chunk.
QaSim == [i \in 0..(MaxChunks + 1) |-> IF i = 0 THEN -5 ELSE 9]

\* A handler whose document search is not wrapped in a try of its own: an
\* exception of search_knowledge_base leaves the handler.
SearchFailureStrict(exc) == exc

\* The exception with which a failure of the document search leaves the
\* handler: none, the bare except passes.
SearchFailure(exc) == NoExc

\* What the handler has in hand when it builds its response: the exception
\* that left its try block, the contexts it retrieved, the outcome of the
\* document search (0 when it was not made) and the result of generate_answer.
Answered(d, document_id, current_user, question, kb_ok, env, gen) ==
    LET search == IF d.knowledge_base_created
                  THEN search_knowledge_base(d, embeddings, document_id, 3, current_user,
                                             kb_ok, QaSim)
                  ELSE [exc |-> NoExc, results |-> <<>>]
        legal_search == search_legal_corpus(question, 2, env.engine, env.service_ok, env.hits)
        document_context == IF search.exc.raised THEN <<>> ELSE search.results
        legal_context == IF legal_search.exc.raised THEN <<>> ELSE legal_search.results
    IN  [exc |-> SearchFailure(search.exc),
         document_context |-> document_context,
         legal_context |-> legal_context,
         legal_source |-> legal_search.source,
         kb_code |-> IF ~d.knowledge_base_created THEN 0
                     ELSE IF search.exc.raised THEN search.exc.code ELSE 200,
         answer_data |-> generate_answer(gen, document_context, legal_context)]

\* response_time_ms: int((time.time() - start_time) * 1000).
Latencies == {0, 7}

\* A handler that keeps one record of the latest question only.
QaRecordReplace(history, qa_doc) == <<qa_doc>>

\* qa_collection.add(qa_doc): a new record under a generated identifier.
QaRecord(history, qa_doc) == Append(history, qa_doc)

\* answer_question: POST /qa.  kb_ok: the query embedding succeeds; env: whether
\* a search engine is configured, whether the external search answers and with
\* how many results; gen: the generation response; add_ok: the store accepts
\* the record.  An answer that is no string fails the validation of
\* QAResponse, and a NaN confidence the JSON rendering of the response, after
\* the record was added.
AnswerQuestion(document_id, current_user, question, kb_ok, env, gen, response_time_ms, add_ok) ==
    /\ document_id = "d1" => doc.exists
    /\ Len(qa_history) < MaxHistory
    /\ LET d == GetDoc(document_id)
           e == LoadChecks("qa", current_user, d)
       IN  IF e.raised
           THEN /\ qa_resp' = [NoAnswer EXCEPT !.code = e.code, !.detail = e.msg,
                                               !.document_id = document_id]
                /\ qa_history' = qa_history
           ELSE \E a \in {Answered(d, document_id, current_user, question, kb_ok, env, gen)} :
                  LET trace == [NoAnswer EXCEPT
                                  !.document_id = document_id, !.question = question,
                                  !.gk = gen.kind,
                                  !.document_context = a.document_context,
                                  !.legal_context = a.legal_context,
                                  !.legal_source = a.legal_source,
                                  !.kb_code = a.kb_code]
                      nan == a.answer_data.confidence.kind = "nan"
                  IN  IF a.exc.raised
                      THEN /\ qa_resp' = [trace EXCEPT !.code = a.exc.code,
                                                       !.detail = a.exc.msg]
                           /\ qa_history' = qa_history
                      ELSE IF a.answer_data.answer.kind # "str" \/ ~add_ok
                      THEN /\ qa_resp' = [trace EXCEPT !.code = 500,
                                                       !.detail = "Failed to answer question"]
                           /\ qa_history' = qa_history
                      ELSE /\ qa_resp' = [trace EXCEPT
                                            !.code = IF nan THEN 500 ELSE 200,
                                            !.detail = IF nan THEN "Internal Server Error"
                                                       ELSE "",
                                            !.answer = a.answer_data.answer,
                                            !.confidence = a.answer_data.confidence,
                                            !.sources = a.answer_data.sources,
                                            !.citations = a.answer_data.citations,
                                            !.response_time_ms = response_time_ms]
                           /\ qa_history' =
                                QaRecord(qa_history,
                                         [document_id |-> document_id, question |-> question,
                                          answer |-> a.answer_data.answer,
                                          confidence |-> a.answer_data.confidence,
                                          sources |-> a.answer_data.sources,
                                          response_time_ms |-> response_time_ms])
    /\ UNCHANGED <<doc, reqs, embeddings, last, upload_resp, clf_in, clf_out,
                   chunk_vars, search_resp>>

(***************************************************************************)
(* Specifications                                                          *)
(***************************************************************************)
\* Well-formed generation responses: every clause an object with a listed type.
CleanGenOutputs ==
    { g \in GenOutputs : g.kind = "dict" /\ \A k \in 1..Len(g.clauses) :
        g.clauses[k].obj /\ g.clauses[k].clause_type = "termination"
        /\ g.clauses[k].risk_level = "high" }

\* The document lifecycle, requests served one at a time.
Next ==
    \/ \E current_user \in {"anon", "u1"}, type_ok \in BOOLEAN, size_ok \in BOOLEAN,
          store_ok \in BOOLEAN : Upload(current_user, type_ok, size_ok, store_ok)
    \/ \E kind \in StageKinds, document_id \in DocIds, current_user \in Callers :
          StageLoad("r1", kind, document_id, current_user)
    \/ StageMark("r1")
    \/ \E blob_ok \in BOOLEAN, adapter_ok \in BOOLEAN, out \in OcrOutputs :
          OcrRun("r1", blob_ok, adapter_ok, out)
    \/ \E adapter_ok \in BOOLEAN, answer \in TypeAnswers, gen \in StageGenOutputs :
          ClassifyRun("r1", adapter_ok, answer, gen)
    \/ \E adapter_ok \in BOOLEAN, gen \in SummaryOutputs : AnalyzeRun("r1", adapter_ok, gen)
    \/ StageFail("r1")

Spec == Init /\ [][Next]_vars

\* Embedding calls that raise during one build: none, the first chunk's, all.
FailingSets == {{}, {0}, 0..(MaxClauses + ParagraphLimit)}

\* Knowledge-base build and search over the documents that upload, OCR and
\* classification produce, requests served one at a time.
\* The OCR results the knowledge-base runs draw from: no text, or text with
\* paragraphs.
KbOcrOutputs == { out \in OcrOutputs : out.raw_text = "" \/ out.paragraphs # <<>> }

KbNext ==
    \/ Upload("u1", TRUE, TRUE, TRUE)
    \/ \E kind \in {"ocr", "classify"} : StageLoad("r1", kind, "d1", "anon")
    \/ StageMark("r1")
    \/ \E out \in KbOcrOutputs : OcrRun("r1", TRUE, TRUE, out)
    \/ \E gen \in CleanGenOutputs : ClassifyRun("r1", TRUE, " NDA\n", gen)
    \/ StageFail("r1")
    \/ \E document_id \in DocIds, current_user \in {"u1", "u2"}, failing \in FailingSets :
          KbLoad("r1", document_id, current_user, failing)
    \/ KbCommit("r1")
    \/ KbFlag("r1")

KbSpec == Init /\ [][KbNext]_vars

\* Two classify-clauses requests in flight on the one document, served by two
\* server processes that share the document store (inside one event loop a
\* handler does not suspend between its store operations: the store and
\* adapter clients are blocking), after an upload and OCR runs served from the
\* first slot.  The handlers take no lock on the record.
ConcNext ==
    \/ Upload("anon", TRUE, TRUE, TRUE)
    \/ StageLoad("r1", "ocr", "d1", "anon")
    \/ \E r \in Reqs : StageLoad(r, "classify", "d1", "anon")
    \/ \E r \in Reqs : StageMark(r)
    \/ \E out \in OcrOutputs : OcrRun("r1", TRUE, TRUE, out)
    \/ \E r \in Reqs, adapter_ok \in BOOLEAN, gen \in CleanGenOutputs :
          ClassifyRun(r, adapter_ok, " NDA\n", gen)
    \/ \E r \in Reqs : StageFail(r)

ConcSpec == Init /\ [][ConcNext]_vars


\* The embeddings collection after a build that stored data: one record per
\* entry, the last of them carrying the build's flag update.
Stored(data) ==
    [i \in { data[k].chunk_id : k \in 1..Len(data) } |->
        LET x == CHOOSE y \in { data[k] : k \in 1..Len(data) } : y.chunk_id = i
        IN  IF i = data[Len(data)].chunk_id
            THEN [x EXCEPT !.knowledge_base_created = TRUE, !.embeddings_count = Len(data)]
            ELSE x]

\* A classified document of n clauses.
ClassifiedDoc(user_id, n) ==
    [NoDoc EXCEPT !.exists = TRUE, !.user_id = user_id, !.processing_status = "classified",
                  !.gcs_path = "uploads/d1",
                  !.extracted_data = [raw_text |-> "text", paragraphs |-> <<>>,
                                      pages |-> 1, entities |-> 0, tables |-> 0],
                  !.document_type = "nda",
                  !.clauses = [k \in 1..n |->
                                 [id |-> k, clause_type |-> "termination",
                                  risk_level |-> "high",
                                  confidence_score |-> ParsedConfidence]]]

\* A classified document of at most max chunks whose chunks an earlier build
\* stored (all but those whose embedding call failed, one of failings), and on
\* which a later build that stored nothing may have set the flag.
StoreInit(max, failings) ==
    /\ \E user_id \in {"none", "u1"}, n \in 0..(max - 1), flag \in BOOLEAN :
          doc = [ClassifiedDoc(user_id, n) EXCEPT !.knowledge_base_created = flag]
    /\ \E failing \in failings :
          LET chunks == create_text_chunks(doc.extracted_data.raw_text,
                                           doc.extracted_data.paragraphs, doc.clauses)
              data == Embedded(chunks, 0, (0..(Len(chunks) - 1)) \ failing)
          IN  embeddings = IF data = <<>> THEN <<>> ELSE Stored(data)
    /\ reqs = [r \in Reqs |-> Idle]
    /\ last = NoResp
    /\ upload_resp = 200
    /\ clf_in = [kind |-> "none", clauses |-> <<>>]
    /\ clf_out = NoClfOut
    /\ chunks_in = NoChunksIn
    /\ chunks_out = NoChunksOut
    /\ search_resp = NoSearch
    /\ qa_resp = NoAnswer
    /\ qa_history = <<>>

\* Searches over every stored subset of the document's chunks.
SearchInit == StoreInit(MaxChunks, SUBSET (0..(MaxChunks - 1)))

SearchNext ==
    \E document_id \in DocIds, limit \in (-1)..MaxLimit, current_user \in Callers,
       adapter_ok \in BOOLEAN, sim \in [0..(MaxChunks - 1) -> Sims] :
          SearchKb(document_id, limit, current_user, adapter_ok, sim)

SearchSpec == SearchInit /\ [][SearchNext]_vars

\* Paragraphs whose text has exactly MinParagraphLen characters, or one more.
ParagraphLists ==
    UNION { [1..n -> {[len |-> MinParagraphLen], [len |-> MinParagraphLen + 1]}] :
              n \in 0..MaxParagraphs }

\* create_text_chunks applied to one document content.
ChunkInit ==
    /\ doc = NoDoc
    /\ reqs = [r \in Reqs |-> Idle]
    /\ embeddings = <<>>
    /\ last = NoResp
    /\ upload_resp = 0
    /\ clf_in = [kind |-> "none", clauses |-> <<>>]
    /\ clf_out = NoClfOut
    /\ \E raw_text \in {"", "text"}, paragraphs \in ParagraphLists, n \in 0..MaxChunks :
          chunks_in = [raw_text |-> raw_text, paragraphs |-> paragraphs,
                       clauses |-> ClassifiedDoc("none", n).clauses]
    /\ chunks_out = NoChunksOut
    /\ search_resp = NoSearch
    /\ qa_resp = NoAnswer
    /\ qa_history = <<>>

ChunkApply ==
    /\ ~chunks_out.done
    /\ chunks_out' = [done |-> TRUE,
                      chunks |-> create_text_chunks(chunks_in.raw_text, chunks_in.paragraphs,
                                                    chunks_in.clauses)]
    /\ UNCHANGED <<doc, reqs, embeddings, last, upload_resp, clf_in, clf_out, chunks_in, qa_vars>>

ChunkSpec == ChunkInit /\ [][ChunkApply]_vars

\* Questions on a classified document whose chunks were all stored, or none.
QaInit == StoreInit(MaxChunks + 1, {{}, 0..MaxChunks})

\* Generation responses for a question: each kind, each "answer" value and
\* each "confidence" value.
QaGenOutputs ==
    { g \in AnswerOutputs :
        g.kind = "dict" => (g.answer = "text" \/ g.confidence = Num(15)) }

\* The legal corpus during a question: no search engine configured, the
\* external search failing, answering with nothing, answering with more
\* results than a page holds.
LegalEnvs ==
    { [engine |-> FALSE, service_ok |-> TRUE, hits |-> 0],
      [engine |-> TRUE, service_ok |-> FALSE, hits |-> 0],
      [engine |-> TRUE, service_ok |-> TRUE, hits |-> 0],
      [engine |-> TRUE, service_ok |-> TRUE, hits |-> MaxLimit + 1] }

\* Questions put while qa_history holds no record, the store accepting the
\* record.
QaNext ==
    /\ qa_history = <<>>
    /\ \E document_id \in DocIds, current_user \in Callers, question \in Queries,
          kb_ok \in BOOLEAN, env \in LegalEnvs, gen \in QaGenOutputs,
          response_time_ms \in Latencies :
             AnswerQuestion(document_id, current_user, question, kb_ok, env, gen,
                            response_time_ms, TRUE)

QaSpec == QaInit /\ [][QaNext]_vars

\* Generation responses for the retrieval runs: the call raises, an answer
\* that is returned, an answer that makes the response invalid.
RetrievalGenOutputs ==
    { g \in QaGenOutputs :
        g.kind = "raise" \/ (g.kind = "dict" /\ g.answer \in {"text", "list"}
                                             /\ g.confidence = Num(15)) }

\* Questions of the owner and of another user on document d1, under every
\* outcome of the two retrievals, put while qa_history holds no record, the
\* store accepting the record.
QaRetrievalNext ==
    /\ qa_history = <<>>
    /\ \E current_user \in {"u1", "u2"}, question \in Queries, kb_ok \in BOOLEAN,
          env \in LegalEnvs, gen \in RetrievalGenOutputs, response_time_ms \in Latencies :
             AnswerQuestion("d1", current_user, question, kb_ok, env, gen,
                            response_time_ms, TRUE)

QaRetrievalSpec == QaInit /\ [][QaRetrievalNext]_vars

\* A classified document of at most one clause whose chunks were stored, with
\* or without the flag.
QaHistoryInit == StoreInit(2, {{}})

\* Generation responses for the history runs: one for each path of
\* generate_answer, a NaN confidence, and an answer that is no string.
HistoryGenOutputs ==
    { g \in QaGenOutputs :
        \/ g.kind \in {"raise", "notjson"}
        \/ g.kind = "dict" /\ g.answer = "text" /\ g.confidence \in {Num(15), NaN}
        \/ g.kind = "dict" /\ g.answer = "list" }

\* Questions one after another on document d1, by the owner and by another
\* user, the store accepting the record or not.
QaHistoryNext ==
    \E current_user \in {"u1", "u2"}, question \in Queries,
       gen \in HistoryGenOutputs, response_time_ms \in Latencies, add_ok \in BOOLEAN :
          AnswerQuestion("d1", current_user, question, TRUE,
                         [engine |-> FALSE, service_ok |-> TRUE, hits |-> 0], gen,
                         response_time_ms, add_ok)

QaHistorySpec == QaHistoryInit /\ [][QaHistoryNext]_vars

\* The inputs of the access runs other than the document and the caller: an
\* OCR result with text, a response of one listed clause, a full summary,
\* no embedding failure, a search of limit 1, a question whose generation
\* call raises against the mock corpus.
AccessOcrOutput == [raw_text |-> "text", paragraphs |-> <<>>, pages |-> 1, entities |-> 0,
                    tables |-> 0]

AccessGenOutput ==
    [kind |-> "dict",
     clauses |-> << [obj |-> TRUE, clause_type |-> "termination", risk_level |-> "high"] >>]

AccessAnswerOutput ==
    [kind |-> "raise", answer |-> Missing, confidence |-> [kind |-> "absent", v |-> 0]]

AccessLegalEnv == [engine |-> FALSE, service_ok |-> TRUE, hits |-> 0]

\* Every endpoint that names a document, called by every caller on the
\* uploaded document and on an unknown one, requests served one at a time;
\* a run makes one search or puts one question, at any point of the
\* document's life.
AccessNext ==
    \/ \E current_user \in {"anon", "u1"} : Upload(current_user, TRUE, TRUE, TRUE)
    \/ \E kind \in StageKinds, document_id \in DocIds, current_user \in Callers :
          StageLoad("r1", kind, document_id, current_user)
    \/ StageMark("r1")
    \/ OcrRun("r1", TRUE, TRUE, AccessOcrOutput)
    \/ ClassifyRun("r1", TRUE, " NDA\n", AccessGenOutput)
    \/ AnalyzeRun("r1", TRUE, "dict_full")
    \/ StageFail("r1")
    \/ \E document_id \in DocIds, current_user \in Callers :
          KbLoad("r1", document_id, current_user, {})
    \/ KbCommit("r1")
    \/ KbFlag("r1")
    \/ /\ reqs["r1"].pc = "idle" /\ search_resp = NoSearch /\ qa_resp = NoAnswer
       /\ \E document_id \in DocIds, current_user \in Callers :
             SearchKb(document_id, 1, current_user, TRUE, QaSim)
    \/ /\ reqs["r1"].pc = "idle" /\ search_resp = NoSearch /\ qa_resp = NoAnswer
       /\ \E document_id \in DocIds, current_user \in Callers :
             AnswerQuestion(document_id, current_user, "hello", TRUE, AccessLegalEnv,
                            AccessAnswerOutput, 7, TRUE)
    \/ /\ reqs["r1"].pc = "idle"
       /\ \E kind \in ReadKinds, document_id \in DocIds, current_user \in Callers :
             GetEndpoint(kind, document_id, current_user)

AccessSpec == Init /\ [][AccessNext]_vars

\* Summary responses that are a JSON object, or no JSON.
HappySummaryOutputs == SummaryOutputs \ {"nondict"}

\* The sequence upload, process-ocr, classify-clauses, analyze on one document,
\* each request made once the one before it was answered, by a caller without
\* identity or by the uploader; every external call succeeds, the OCR result
\* has text, the clause response carries at least one clause and listed
\* values only.
HappyNext ==
    \/ \E current_user \in {"anon", "u1"} : Upload(current_user, TRUE, TRUE, TRUE)
    \/ \E kind \in StageKinds, current_user \in {"anon", "u1"} :
          /\ doc.processing_status =
                (CASE kind = "ocr" -> "uploaded" [] kind = "classify" -> "ocr_complete"
                   [] OTHER -> "classified")
          /\ StageLoad("r1", kind, "d1", current_user)
    \/ StageMark("r1")
    \/ \E out \in { o \in OcrOutputs : o.raw_text # "" } : OcrRun("r1", TRUE, TRUE, out)
    \/ \E answer \in TypeAnswers, gen \in { g \in CleanGenOutputs : g.clauses # <<>> } :
          ClassifyRun("r1", TRUE, answer, gen)
    \/ \E gen \in HappySummaryOutputs : AnalyzeRun("r1", TRUE, gen)

HappySpec == Init /\ [][HappyNext]_vars

\* A document whose OCR stage has completed, straight after it or after a
\* classification that came before it: status ocr_complete, an OCR result
\* stored, clauses or none.
OcrRerunInit ==
    /\ \E user_id \in {"none", "u1"}, out \in OcrOutputs, n \in 0..1 :
          doc = [ClassifiedDoc(user_id, n) EXCEPT !.processing_status = "ocr_complete",
                                                  !.extracted_data = out]
    /\ reqs = [r \in Reqs |-> Idle]
    /\ embeddings = <<>>
    /\ last = NoResp
    /\ upload_resp = 200
    /\ clf_in = [kind |-> "none", clauses |-> <<>>]
    /\ clf_out = NoClfOut
    /\ chunks_in = NoChunksIn
    /\ chunks_out = NoChunksOut
    /\ search_resp = NoSearch
    /\ qa_resp = NoAnswer
    /\ qa_history = <<>>

\* process-ocr requests on a document that is ocr_complete; the stored bytes
\* are the same and the OCR adapter, when it answers, answers as it did in the
\* run before.
OcrRerunNext ==
    \/ /\ doc.processing_status = "ocr_complete"
       /\ \E document_id \in DocIds, current_user \in Callers :
             StageLoad("r1", "ocr", document_id, current_user)
    \/ StageMark("r1")
    \/ \E blob_ok \in BOOLEAN, adapter_ok \in BOOLEAN :
          OcrRun("r1", blob_ok, adapter_ok, doc.extracted_data)
    \/ StageFail("r1")

OcrRerunSpec == OcrRerunInit /\ [][OcrRerunNext]_vars

\* segment_and_classify_clauses applied to one generation response.
ClfInit ==
    /\ doc = NoDoc
    /\ reqs = [r \in Reqs |-> Idle]
    /\ embeddings = <<>>
    /\ last = NoResp
    /\ upload_resp = 0
    /\ clf_in \in GenOutputs
    /\ clf_out = NoClfOut
    /\ chunks_in = NoChunksIn
    /\ chunks_out = NoChunksOut
    /\ search_resp = NoSearch
    /\ qa_resp = NoAnswer
    /\ qa_history = <<>>

ClfApply ==
    /\ ~clf_out.done
    /\ LET res == segment_and_classify_clauses(clf_in)
       IN  clf_out' = [done |-> TRUE, exc |-> res.exc, clauses |-> res.clauses]
    /\ UNCHANGED <<doc, reqs, embeddings, last, upload_resp, clf_in, chunk_vars, qa_vars>>

ClfSpec == ClfInit /\ [][ClfApply]_vars

\* calculate_overall_risk applied to one clause list.
MaxRiskClauses == 4

\* Clause lists of every length up to MaxRiskClauses, each clause at one of
\* the levels of RiskLevel.
RiskClauseLists ==
    UNION { [1..n -> { [id |-> 1, clause_type |-> "termination", risk_level |-> level,
                        confidence_score |-> ParsedConfidence] :
                       level \in {"high", "medium", "low"} }] : n \in 0..MaxRiskClauses }

RiskInit ==
    /\ doc = NoDoc
    /\ reqs = [r \in Reqs |-> Idle]
    /\ embeddings = <<>>
    /\ last = NoResp
    /\ upload_resp = 0
    /\ \E clauses \in RiskClauseLists : clf_in = [kind |-> "risk", clauses |-> clauses]
    /\ clf_out = NoClfOut
    /\ chunks_in = NoChunksIn
    /\ chunks_out = NoChunksOut
    /\ search_resp = NoSearch
    /\ qa_resp = NoAnswer
    /\ qa_history = <<>>

RiskApply ==
    /\ ~clf_out.done
    /\ clf_out' = [done |-> TRUE, exc |-> NoExc, clauses |-> clf_in.clauses,
                   overall_risk |-> calculate_overall_risk(clf_in.clauses)]
    /\ UNCHANGED <<doc, reqs, embeddings, last, upload_resp, clf_in, chunk_vars, qa_vars>>

RiskSpec == RiskInit /\ [][RiskApply]_vars

(***************************************************************************)
(* Properties                                                              *)
(***************************************************************************)
\* Slot r takes the step.
Acts(r) == reqs'[r] # reqs[r]

\* Slot r holds a classify or analyze request that read a record, was not
\* denied access, and read a status other than the one its stage requires.
PrereqMissing(r) ==
    /\ reqs[r].pc # "idle"
    /\ reqs[r].doc_data.processing_status # Missing
    /\ reqs[r].exc.code # 403
    /\ \/ reqs[r].kind = "classify" /\ reqs[r].doc_data.processing_status # "ocr_complete"
       \/ reqs[r].kind = "analyze" /\ reqs[r].doc_data.processing_status # "classified"

\* C1: a classify-clauses request that read a status other than ocr_complete,
\* and an analyze request that read a status other than classified, never
\* changes the record's clauses, and the response it ends with is the 400 of
\* the prerequisite check.
C1_PrereqRejected ==
    [][\A r \in Reqs : PrereqMissing(r) /\ Acts(r) =>
          /\ doc'.clauses = doc.clauses
          /\ reqs'[r].pc = "idle" =>
                /\ last'.code = 400
                /\ last'.detail = PrereqDetail(reqs[r].kind)]_vars

\* C1 witness: classify-clauses was rejected by its prerequisite check on a
\* document that holds clauses (it was classified before).
C1_Witness ==
    /\ last.kind = "classify" /\ last.code = 400
    /\ last.detail = "Document must complete OCR processing first"
    /\ doc.clauses # <<>>

\* C2: the step in which a stage request is rejected with a 400 leaves every
\* field of the document record as it was.
C2_RejectionMutatesNothing ==
    [][\A r \in Reqs :
          /\ reqs[r].kind \in StageKinds /\ reqs[r].pc = "fail"
          /\ reqs[r].exc.http /\ reqs[r].exc.code = 400
          /\ Acts(r)
          => doc' = doc]_vars

\* The steps of the lifecycle chain.
ChainSteps ==
    { <<"uploaded", "processing">>, <<"processing", "ocr_complete">>,
      <<"ocr_complete", "processing">>, <<"processing", "classified">>,
      <<"classified", "processing">>, <<"processing", "analyzed">>,
      <<"analyzed", "complete">> }

\* C3: with requests served one at a time, every change of processing_status
\* is a step of the chain or a step to failed.
C3_ChainOrder ==
    [][doc.exists /\ doc'.processing_status # doc.processing_status =>
          \/ <<doc.processing_status, doc'.processing_status>> \in ChainSteps
          \/ doc'.processing_status = "failed"]_vars

\* C4: once processing_status is failed, no step changes it.
C4_FailedTerminal ==
    [][doc.processing_status = "failed" => doc'.processing_status = "failed"]_vars

\* C5: a process-ocr request that read a status other than uploaded or
\* processing neither sets the status to processing nor writes extracted_data.
C5_OcrOnlyFromUploaded ==
    [][\A r \in Reqs :
          /\ reqs[r].kind = "ocr" /\ reqs[r].pc # "idle"
          /\ reqs[r].doc_data.processing_status \in
                {"ocr_complete", "classified", "analyzed", "failed"}
          /\ Acts(r)
          => /\ doc'.processing_status = "processing" => doc.processing_status = "processing"
             /\ doc'.extracted_data = doc.extracted_data]_vars

\* C6: a stage request on an existing document in which an exception was
\* raised ends in its next step, with an error response, and that step leaves
\* the record with status failed and an error_message.
C6_FailurePersisted ==
    [][\A r \in Reqs :
          /\ reqs[r].kind \in StageKinds /\ reqs[r].pc = "fail"
          /\ reqs[r].document_id = "d1"
          /\ Acts(r)
          => /\ reqs'[r].pc = "idle"
             /\ last'.code >= 400
             /\ doc'.processing_status = "failed"
             /\ doc'.error_message # Missing]_vars

\* C6 witness: an adapter exception during a stage was answered with 500 and
\* the record is failed with str(e) as its error_message.
C6_Witness ==
    /\ last.kind \in StageKinds /\ last.code = 500 /\ last.document_id = "d1"
    /\ doc.processing_status = "failed" /\ doc.error_message = "adapter error"

\* C7: on a response whose clauses are all objects, the classifier returns one
\* clause per generated clause, each with clause_type in the enum and
\* risk_level in {high, medium, low}; an unlisted type has become other and an
\* unlisted risk medium.
C7_Coerced ==
    (/\ clf_out.done /\ clf_in.kind = "dict"
     /\ \A k \in 1..Len(clf_in.clauses) : clf_in.clauses[k].obj)
    => /\ ~clf_out.exc.raised
       /\ Len(clf_out.clauses) = Len(clf_in.clauses)
       /\ \A k \in 1..Len(clf_out.clauses) :
             /\ clf_out.clauses[k].risk_level \in {"high", "medium", "low"}
             /\ clf_out.clauses[k].clause_type =
                   IF clf_in.clauses[k].clause_type \in EnumValues(ClauseType)
                   THEN clf_in.clauses[k].clause_type ELSE "other"

\* C8: a classify-clauses request whose generation response is not JSON, or is
\* JSON without the expected structure, is answered with success, and leaves
\* the record classified with exactly one clause of type other, risk medium
\* and confidence 0.3.
C8_FallbackClause ==
    (last.kind = "classify" /\ last.gk \in {"notjson", "nondict"})
    => /\ last.code = 200
       /\ doc.processing_status = "classified"
       /\ Len(doc.clauses) = 1
       /\ doc.clauses[1].clause_type = "other"
       /\ doc.clauses[1].risk_level = "medium"
       /\ doc.clauses[1].confidence_score = FallbackConfidence

\* C9: after create_knowledge_base has answered with success, the document's
\* own record has knowledge_base_created set and embeddings_count equal to the
\* number of chunks persisted.
C9_FlagOnDocument ==
    (last.kind = "kb" /\ last.code = 200)
    => /\ doc.knowledge_base_created
       /\ doc.embeddings_count = last.n

\* C10: clauses is non-empty only while processing_status is classified,
\* analyzed or complete.
C10_ClausesOnlyFromClassified ==
    doc.clauses # <<>> => doc.processing_status \in {"classified", "analyzed", "complete"}

C12_PartialSuccess ==
    [][(\A r \in Reqs :
          (reqs[r].kind = "kb" /\ Acts(r)) =>
             LET chunks == create_text_chunks(doc.extracted_data.raw_text,
                                              doc.extracted_data.paragraphs, doc.clauses)
                 ords == 0..(Len(chunks) - 1)
             IN  /\ (reqs[r].pc = "commit") =>
                       (/\ reqs'[r].pc = "flag"
                        /\ \A i \in ords \ reqs[r].skipped :
                              (/\ i \in DOMAIN embeddings'
                               /\ embeddings'[i].chunk_type = chunks[i + 1].type
                               /\ embeddings'[i].index = chunks[i + 1].index
                               /\ embeddings'[i].embedding)
                        /\ \A i \in reqs[r].skipped :
                              (i \in DOMAIN embeddings' =>
                                  (i \in DOMAIN embeddings /\ embeddings'[i] = embeddings[i])))
                 /\ (reqs[r].pc = "flag") =>
                       (/\ last'.code = 200
                        /\ last'.n = Len(chunks) - Cardinality(reqs[r].skipped)))
       /\ ((last' # last /\ last'.kind = "kb" /\ last'.code = 400) =>
              (/\ last'.detail = "No text found in document"
               /\ embeddings' = embeddings
               /\ doc' = doc))]_vars

\* C12 witness: a build whose first embedding call failed was answered with
\* success; chunk 0 has no record and chunk 1 has one.
C12_Witness ==
    /\ last.kind = "kb" /\ last.code = 200 /\ last.n >= 1
    /\ 0 \notin DOMAIN embeddings /\ 1 \in DOMAIN embeddings

\* The document's embedding records that hold a vector.
WithVector(document_id) ==
    { i \in DOMAIN embeddings :
        embeddings[i].document_id = document_id /\ embeddings[i].embedding }

\* C13: a search with limit k >= 0 that returns (the flag is set) returns
\* min(k, number of the document's records that hold a vector) results, each
\* one of those records and none twice, in order of non-increasing similarity.
C13_SearchResults ==
    (search_resp.code = 200 /\ search_resp.limit >= 0)
    => LET results == search_resp.results
       IN  /\ Len(results) = Min(search_resp.limit,
                                 Cardinality(WithVector(search_resp.document_id)))
           /\ \A j \in 1..Len(results) :
                 /\ results[j].chunk_id \in WithVector(search_resp.document_id)
                 /\ \A k \in (j + 1)..Len(results) :
                       /\ results[j].similarity >= results[k].similarity
                       /\ results[j].chunk_id # results[k].chunk_id

\* C13 witness: a search with limit 2 over three records returned two results,
\* the first of them the record streamed last, and of greater similarity than
\* the second.
C13_Witness ==
    /\ search_resp.code = 200 /\ search_resp.limit = 2
    /\ search_resp.total_searched = 3 /\ Len(search_resp.results) = 2
    /\ search_resp.results[1].chunk_id = 2
    /\ search_resp.results[1].similarity > search_resp.results[2].similarity

\* C14: a search by a permitted caller on a document whose
\* knowledge_base_created flag is not set is answered with 400 "Knowledge
\* base not created for this document", and it neither called the embedding
\* adapter nor read the embeddings collection.
C14_NotReady ==
    (/\ search_resp.document_id = "d1" /\ search_resp.code \notin {0, 403}
     /\ ~doc.knowledge_base_created)
    => /\ search_resp.code = 400
       /\ search_resp.detail = "Knowledge base not created for this document"
       /\ ~search_resp.embedded
       /\ ~search_resp.scanned
       /\ search_resp.results = <<>>

\* C14 witness: a search was refused with 400 on a document without the flag
\* although embedding records of it exist.
C14_Witness ==
    /\ search_resp.code = 400 /\ search_resp.document_id = "d1"
    /\ ~doc.knowledge_base_created
    /\ WithVector("d1") # {}

\* The positions of the chunks of one type in the result of create_text_chunks.
ChunksOfType(type) ==
    { k \in 1..Len(chunks_out.chunks) : chunks_out.chunks[k].type = type }

\* C15: create_text_chunks returns at least one chunk and its first chunk is
\* the full-document chunk, also for no clauses and no paragraphs; it returns
\* one clause chunk per input clause; and at most 10 paragraph chunks, each
\* from one of the first 10 input paragraphs and of a text longer than 100
\* characters.
C15_ChunkCounts ==
    chunks_out.done
    => /\ Len(chunks_out.chunks) >= 1
       /\ ChunksOfType("document") = {1}
       /\ Cardinality(ChunksOfType("clause")) = Len(chunks_in.clauses)
       /\ Cardinality(ChunksOfType("paragraph")) <= 10
       /\ \A k \in ChunksOfType("paragraph") :
             LET i == chunks_out.chunks[k].index
             IN  /\ i < 10 /\ i < Len(chunks_in.paragraphs)
                 /\ chunks_in.paragraphs[i + 1].len > 100

\* C15 witness: twelve paragraphs, one of the first ten short, gave nine
\* paragraph chunks.
C15_Witness ==
    /\ chunks_out.done /\ Len(chunks_in.paragraphs) = 12
    /\ \A i \in 1..12 : chunks_in.paragraphs[i].len > 100 <=> i # 3
    /\ Cardinality(ChunksOfType("paragraph")) = 9

\* C16: 3 clauses and 12 paragraphs of which exactly 2 have at most 100
\* characters give 14 chunks.
C16_FourteenChunks ==
    (/\ chunks_out.done /\ Len(chunks_in.clauses) = 3 /\ Len(chunks_in.paragraphs) = 12
     /\ Cardinality({ i \in 1..12 : chunks_in.paragraphs[i].len <= 100 }) = 2)
    => Len(chunks_out.chunks) = 14

\* The question was accepted: the document exists and the caller may read it.
QaAccepted == qa_resp.code \notin {0, 403, 404}

\* C17: every answer returned has a confidence within [0.0, 1.0] and ends with
\* the fixed disclaimer, the two sentences appended to a parsed answer, on
\* the successful path and on both fallback paths.
C17_DisclaimerAndConfidence ==
    (QaAccepted /\ qa_resp.code = 200)
    => /\ qa_resp.confidence.kind = "num"
       /\ qa_resp.confidence.v >= 0 /\ qa_resp.confidence.v <= 10
       /\ \E k \in 1..(Len(qa_resp.answer.parts) - 1) :
             SubSeq(qa_resp.answer.parts, k, k + 1) = <<DisclaimerHead, DisclaimerTail>>

\* C18: an accepted question is not ended by its retrievals.  When the
\* document search raised (an HTTP error or any other), the document context
\* is empty; and the request is answered, unless the parsed generation
\* response itself makes the response invalid.
C18_RetrievalNeverAborts ==
    QaAccepted
    => /\ qa_resp.kb_code \notin {0, 200} => qa_resp.document_context = <<>>
       /\ qa_resp.legal_source \in {"mock_legal_corpus", "vertex_ai_search"}
       /\ \/ qa_resp.code = 200
          \/ /\ qa_resp.gk = "dict"
             /\ qa_resp.detail \in {"Failed to answer question", "Internal Server Error"}

\* C18 witness: the document search of a question raised 500 on a document
\* that has the flag and stored vectors, and the question was answered with
\* an empty document context.
C18_Witness ==
    /\ qa_resp.code = 200 /\ qa_resp.kb_code = 500
    /\ qa_resp.document_context = <<>>
    /\ doc.knowledge_base_created /\ WithVector("d1") # {}

\* C19: an accepted question uses at most 3 document chunks and at most 2
\* legal results, and its citations are at most 2.
C19_ContextLimits ==
    QaAccepted
    => /\ Len(qa_resp.document_context) <= 3
       /\ Len(qa_resp.legal_context) <= 2
       /\ Len(qa_resp.citations) <= 2

\* C20: when the generation response is not JSON, the answer is the canned
\* "I found some relevant information" with confidence 0.3 if any document
\* chunk or legal result was retrieved, and the canned "I encountered an
\* issue" with confidence 0.2 if none was.
C20_FallbackByContext ==
    (QaAccepted /\ qa_resp.code = 200 /\ qa_resp.gk = "notjson")
    => IF qa_resp.document_context # <<>> \/ qa_resp.legal_context # <<>>
       THEN /\ qa_resp.answer.parts[1] = "I found some relevant information in your document"
            /\ qa_resp.confidence = Num(3)
       ELSE /\ qa_resp.answer.parts[1] = "I encountered an issue while analyzing your question"
            /\ qa_resp.confidence = Num(2)

\* C21: no question changes or removes a record of qa_history or adds more
\* than one; and a question that is answered (on the parsed path or on either
\* fallback path) has added one record, which carries the document, the
\* question and the answer, confidence, sources and latency of the response.
C21_RecordAppended ==
    [][/\ Len(qa_history') \in {Len(qa_history), Len(qa_history) + 1}
       /\ SubSeq(qa_history', 1, Len(qa_history)) = qa_history
       /\ qa_resp'.code = 200 =>
             /\ Len(qa_history') = Len(qa_history) + 1
             /\ qa_history'[Len(qa_history')] =
                   [document_id |-> qa_resp'.document_id, question |-> qa_resp'.question,
                    answer |-> qa_resp'.answer, confidence |-> qa_resp'.confidence,
                    sources |-> qa_resp'.sources,
                    response_time_ms |-> qa_resp'.response_time_ms]]_vars

\* C21 witness: a question answered on a fallback path was recorded after the
\* record of an earlier question, which is still the first record.
C21_Witness ==
    /\ Len(qa_history) = 2 /\ qa_resp.code = 200 /\ qa_resp.gk \in {"raise", "notjson"}
    /\ qa_history[2].answer = qa_resp.answer
    /\ qa_history[1].answer # qa_history[2].answer

\* The caller has an identity, the document exists and has a stored owner,
\* and the two differ.
OwnerMismatch(current_user, document_id) ==
    /\ current_user # "anon"
    /\ document_id = "d1" /\ doc.exists /\ doc.user_id # "none"
    /\ doc.user_id # current_user

\* C22: whichever endpoint a step enters and whoever calls it, the request is
\* given the 403 exactly when the caller has an identity, the document has a
\* stored owner and the two differ; the 403 a stage request was given is the
\* code of its response, and no later step of a request gives one.
C22_AccessRule ==
    [][/\ \A document_id \in DocIds, current_user \in Callers :
             /\ \A kind \in StageKinds :
                   (reqs'["r1"].kind = kind /\ reqs["r1"].pc = "idle"
                    /\ StageLoad("r1", kind, document_id, current_user))
                   => (reqs'["r1"].exc.code = 403 <=> OwnerMismatch(current_user, document_id))
             /\ (reqs["r1"].pc = "idle" /\ "kb" \in {reqs'["r1"].kind, last'.kind}
                 /\ KbLoad("r1", document_id, current_user, {}))
                => (last'.code = 403 <=> OwnerMismatch(current_user, document_id))
             /\ (search_resp' # search_resp
                 /\ SearchKb(document_id, 1, current_user, TRUE, QaSim))
                => (search_resp'.code = 403 <=> OwnerMismatch(current_user, document_id))
             /\ (<<qa_resp, qa_history>>' # <<qa_resp, qa_history>>
                 /\ AnswerQuestion(document_id, current_user, "hello", TRUE, AccessLegalEnv,
                                   AccessAnswerOutput, 7, TRUE))
                => (qa_resp'.code = 403 <=> OwnerMismatch(current_user, document_id))
             /\ \A kind \in ReadKinds :
                   (last'.kind = kind /\ GetEndpoint(kind, document_id, current_user))
                   => (last'.code = 403 <=> OwnerMismatch(current_user, document_id))
       /\ (reqs["r1"].pc # "idle" /\ Acts("r1"))
          => /\ reqs'["r1"].exc.code = 403 => reqs["r1"].exc.code = 403
             /\ reqs'["r1"].pc = "idle" => (last'.code = 403 <=> reqs["r1"].exc.code = 403)]_vars

\* C22 witness: on a document that has an owner and a knowledge base, a
\* question was let through and answered, and a status request was refused.
C22_Witness ==
    /\ doc.user_id = "u1" /\ WithVector("d1") # {}
    /\ qa_resp.code = 200 /\ qa_resp.document_id = "d1"
    /\ last.kind = "get_upload_status" /\ last.code = 403

\* C23: the retrievals of an accepted question degrade: search_knowledge_base
\* hands its caller a result list (empty when the embedding adapter failed)
\* and no error, and search_legal_corpus hands it the external results or the
\* mock table.
C23_RetrievalDegrades ==
    QaAccepted
    => /\ qa_resp.kb_code \in {0, 200}
       /\ qa_resp.legal_source \in {"mock_legal_corpus", "vertex_ai_search"}

\* C24: a stage request that names an identifier without a record is answered
\* with 404 "Document not found", and the step that answers it leaves the
\* document store as it was.
C24_UnknownDocument ==
    [][\A r \in Reqs :
          (reqs[r].kind \in StageKinds /\ reqs[r].document_id = "ghost" /\ Acts(r))
          => /\ reqs'[r].pc = "idle"
             /\ last'.code = 404 /\ last'.detail = "Document not found"
             /\ doc' = doc]_vars

\* The status a stage leaves when it succeeds.
StageResult(kind) ==
    CASE kind = "ocr" -> "ocr_complete" [] kind = "classify" -> "classified"
      [] OTHER -> "analyzed"

\* C25: in the sequence upload, process-ocr, classify-clauses, analyze with
\* every external call succeeding and a clause response of at least one
\* clause and listed values, no request fails; the status goes from uploaded
\* to ocr_complete, to classified and to analyzed, through processing while a
\* stage runs; every stage is answered with success; the OCR stage leaves
\* text, the classify stage a non-empty clauses list of listed types and risk
\* levels, and the analyze stage an overall_risk among high, medium and low.
C25_HappyPath ==
    [][/\ reqs'["r1"].pc # "fail"
       /\ ~doc.exists => doc'.processing_status \in {Missing, "uploaded"}
       /\ (doc.exists /\ doc'.processing_status # doc.processing_status)
          => \/ /\ doc.processing_status \in {"uploaded", "ocr_complete", "classified"}
                /\ doc'.processing_status = "processing"
             \/ /\ doc.processing_status = "processing"
                /\ doc'.processing_status = StageResult(reqs["r1"].kind)
                /\ reqs["r1"].doc_data.processing_status =
                      (CASE reqs["r1"].kind = "ocr" -> "uploaded"
                         [] reqs["r1"].kind = "classify" -> "ocr_complete"
                         [] OTHER -> "classified")
       /\ (reqs["r1"].pc = "run" /\ Acts("r1"))
          => /\ reqs'["r1"].pc = "idle" /\ last'.code = 200
             /\ doc'.processing_status = StageResult(reqs["r1"].kind)
             /\ reqs["r1"].kind = "ocr" => doc'.extracted_data.raw_text # ""
             /\ reqs["r1"].kind = "classify"
                => /\ doc'.clauses # <<>>
                   /\ \A k \in 1..Len(doc'.clauses) :
                         /\ doc'.clauses[k].clause_type \in EnumValues(ClauseType)
                         /\ doc'.clauses[k].risk_level \in EnumValues(RiskLevel)
             /\ reqs["r1"].kind = "analyze"
                => /\ doc'.overall_risk \in {"high", "medium", "low"}
                   /\ doc'.clauses = doc.clauses /\ doc.clauses # <<>>]_vars

\* C25 witness: the four requests were made and the document is analyzed,
\* with text, clauses and an overall risk.
C25_Witness ==
    /\ last.kind = "analyze" /\ last.code = 200
    /\ doc.processing_status = "analyzed"
    /\ doc.extracted_data.raw_text # "" /\ doc.clauses # <<>>
    /\ doc.overall_risk \in {"high", "medium", "low"}

\* C26: a process-ocr request that read ocr_complete and whose adapter output
\* gives the extracted_data the record already holds leaves extracted_data
\* equal to it: the same text and the same pages, paragraphs, entities and
\* tables, none of them added to what was stored; and the status is
\* ocr_complete again.
C26_OcrRerun ==
    [][\A out \in OcrOutputs :
          (/\ reqs["r1"].pc = "run" /\ reqs["r1"].kind = "ocr"
           /\ reqs["r1"].doc_data.processing_status = "ocr_complete"
           /\ out = doc.extracted_data
           /\ OcrRun("r1", TRUE, TRUE, out))
          => /\ doc'.extracted_data = doc.extracted_data
             /\ Len(doc'.extracted_data.paragraphs) = Len(out.paragraphs)
             /\ doc'.extracted_data.pages = out.pages
             /\ doc'.processing_status = "ocr_complete"
             /\ last'.code = 200]_vars

\* C26 witness: a second OCR run on a document with paragraphs, a page, an
\* entity and a table was answered with success.
C26_Witness ==
    /\ last.kind = "ocr" /\ last.code = 200 /\ last.n = 2
    /\ doc.processing_status = "ocr_complete"
    /\ Len(doc.extracted_data.paragraphs) = 2 /\ doc.extracted_data.tables = 1

\* C27: a stage request refused with 403 Access denied is answered with 403 and
\* leaves the document record as it was: no status, error message or other
\* field of it is written.
C27_DeniedLeavesRecord ==
    [][\A r \in Reqs :
          (/\ reqs[r].kind \in StageKinds /\ reqs[r].pc = "fail"
           /\ reqs[r].exc = HTTPException(403, "Access denied")
           /\ Acts(r))
          => /\ last'.code = 403
             /\ doc' = doc]_vars

\* C28: when a knowledge-base build stores its records, the records persisted
\* for the document are exactly the ones that build embedded: none of an
\* earlier build remains beside them.
C28_RebuildReplaces ==
    [][\A r \in Reqs :
          (reqs[r].kind = "kb" /\ reqs[r].pc = "commit" /\ Acts(r))
          => LET data == reqs[r].embeddings_data
             IN  /\ DOMAIN embeddings' = { data[k].chunk_id : k \in 1..Len(data) }
                 /\ \A k \in 1..Len(data) : embeddings'[data[k].chunk_id] = data[k]]_vars

\* C29: a document's status is always one of uploaded, processing,
\* ocr_complete, classified, analyzed and failed; complete is never written,
\* so analyzed is the furthest status a document reaches.
C29_NeverComplete ==
    doc.exists =>
        /\ doc.processing_status \in
              {"uploaded", "processing", "ocr_complete", "classified", "analyzed", "failed"}
        /\ doc.processing_status # "complete"

\* C29 witness: an analysis was answered with success and the document stands
\* at analyzed.
C29_Witness ==
    /\ last.kind = "analyze" /\ last.code = 200
    /\ doc.exists /\ doc.processing_status = "analyzed"

\* The number of clauses of a list at a risk level.
LevelCount(clauses, level) ==
    Cardinality({ k \in 1..Len(clauses) : clauses[k].risk_level = level })

\* C30: with high counted 3, medium 2 and low 1, calculate_overall_risk gives,
\* for n > 0 clauses of score sum s, high exactly when 2s >= 5n, medium exactly
\* when 3n <= 2s < 5n and low exactly when 2s < 3n; for no clause it gives
\* medium; it gives no other value.
C30_OverallRisk ==
    (clf_in.kind = "risk" /\ clf_out.done) =>
        LET clauses == clf_in.clauses
            n == Len(clauses)
            s == 3 * LevelCount(clauses, "high") + 2 * LevelCount(clauses, "medium")
                 + LevelCount(clauses, "low")
        IN  /\ clf_out.overall_risk \in {"high", "medium", "low"}
            /\ (n = 0) => (clf_out.overall_risk = "medium")
            /\ (n > 0) =>
                  (/\ (clf_out.overall_risk = "high") <=> (2 * s >= 5 * n)
                   /\ (clf_out.overall_risk = "medium") <=> (2 * s >= 3 * n /\ 2 * s < 5 * n)
                   /\ (clf_out.overall_risk = "low") <=> (2 * s < 3 * n))

\* C30 witness: a high and a medium clause, whose average is exactly 2.5, were
\* rated high.
C30_Witness ==
    /\ clf_in.kind = "risk" /\ clf_out.done
    /\ Len(clf_in.clauses) = 2
    /\ clf_in.clauses[1].risk_level = "high" /\ clf_in.clauses[2].risk_level = "medium"
    /\ clf_out.overall_risk = "high"

=============================================================================
